---- MODULE Spec2Model ----
(***************************************************************************)
(* Options analytics engine of autoinvest: the contract normalizer         *)
(* (DataFetcher.validate_option_data), the per-contract yield metric, the  *)
(* screening / ranking step of the batch put page, the calculator          *)
(* (OptionsCalculator) and the pages' path from the quote to the table of  *)
(* analysed contracts.                                                     *)
(*                                                                         *)
(* Numbers are integers: prices and strikes in dollars, implied volatility *)
(* in hundredths (0.30 = 30, 5.0 = 500), probabilities and return          *)
(* thresholds in percent.  A yield is an exact fraction [num, den].        *)
(***************************************************************************)
EXTENDS Integers, Sequences, FiniteSets, TLC

VARIABLES
    passed,       \* the raw chain as it was when the caller passed it
    raw,          \* the caller's DataFrame object, which the normalizer may write
    clean,        \* the DataFrame validate_option_data returned
    npc,          \* position of the normalizer call: "start", "returned", "raised"
    results_df,   \* analytics table handed to the screening step
    criteria,     \* sidebar thresholds of the page
    tieRank,      \* order in which this build's quicksort leaves equal keys
    calls,        \* number of screening runs done on results_df
    outputs,      \* outcome of every screening run, oldest first
    helper_out,   \* tables returned by utils.filter_options_by_criteria
    risk_free_rate, \* calculator.risk_free_rate, in percent
    args,         \* arguments of the calculator call under study
    ret,          \* what that call returned
    stock_info,   \* current_price of the quote get_stock_info returned
    analysis_results, \* analysis dicts a page has collected so far
    ppc,          \* position of the page: "fetched", "skipped", "loop", ...
    solver,       \* what this build's implied-volatility solver answers, per rate
    analyses,     \* analyze_option calls made on the shared calculator
    fetcher       \* the DataFetcher object and the request it is serving

vars == <<passed, raw, clean, npc, results_df, criteria, tieRank, calls, outputs,
          helper_out, risk_free_rate, args, ret, stock_info, analysis_results, ppc,
          solver, analyses, fetcher>>

normVars == <<passed, raw, clean, npc>>
screenVars == <<results_df, criteria, tieRank, calls, outputs, helper_out>>
calcVars == <<risk_free_rate, args, ret, solver, analyses>>
fetchVars == <<fetcher>>
pageVars == <<stock_info, analysis_results, ppc>>

(***************************************************************************)
(* Bounds of the model.                                                    *)
(***************************************************************************)
MaxRawRows == 2     \* rows of a raw option chain
MaxRows == 2        \* rows of an analytics table
MaxCalls == 2       \* screening runs on one analytics table

(***************************************************************************)
(* Cells of a pandas DataFrame.  A cell is a number, a missing value       *)
(* (NaN) or a string that pd.to_numeric cannot parse.                      *)
(***************************************************************************)
Num(n) == [k |-> "num", v |-> n]
NaN == [k |-> "nan", v |-> 0]
Bad == [k |-> "str", v |-> 0]

IsNum(c) == c.k = "num"
IsNA(c) == c.k = "nan"
IsStr(c) == c.k = "str"

\* A DataFrame: its columns and its rows, each row a function on the columns.
DataFrame(cols, rows) == [cols |-> cols, rows |-> rows]
EmptyFrame == DataFrame({}, <<>>)

\* DataFrame.empty: no rows or no columns.
IsEmpty(df) == df.cols = {} \/ Len(df.rows) = 0

RECURSIVE SelectSeqBy(_, _)
\* df[mask]: the rows whose mask entry is TRUE, in order.  mask is a
\* sequence of booleans as long as rows.
SelectSeqBy(rows, mask) ==
    IF Len(rows) = 0 THEN <<>>
    ELSE LET rest == SelectSeqBy(Tail(rows), Tail(mask))
         IN  IF Head(mask) THEN <<Head(rows)>> \o rest ELSE rest

Mask(rows, P(_)) == [i \in 1..Len(rows) |-> P(rows[i])]

\* df[col] = value: add or overwrite a column with a scalar.
SetColumn(df, col, value) ==
    DataFrame(df.cols \cup {col},
              [i \in 1..Len(df.rows) |->
                  [c \in df.cols \cup {col} |->
                      IF c = col THEN value ELSE df.rows[i][c]]])

\* df[col] = f(df[col]) cell by cell.
MapColumn(df, col, F(_)) ==
    DataFrame(df.cols,
              [i \in 1..Len(df.rows) |->
                  [c \in df.cols |->
                      IF c = col THEN F(df.rows[i][c]) ELSE df.rows[i][c]]])

\* df.dropna(subset=cols): drop the rows with a missing value in one of cols.
DropNA(df, subset) ==
    DataFrame(df.cols,
              SelectSeqBy(df.rows,
                          Mask(df.rows, LAMBDA r : \A c \in subset : ~IsNA(r[c]))))

\* df[df[col] <op> bound]: a comparison of a column with a number raises
\* TypeError when a cell of the column is a string; NaN compares False.
CompareRaises(df, col) == \E i \in 1..Len(df.rows) : IsStr(df.rows[i][col])

KeepWhere(df, P(_)) == DataFrame(df.cols, SelectSeqBy(df.rows, Mask(df.rows, P)))

\* pd.to_numeric(errors='coerce'): what cannot be parsed becomes NaN.
ToNumericCoerce(c) == IF IsStr(c) THEN NaN ELSE c

\* Series.astype(int) raises when the column holds a NaN.
AsTypeIntRaises(df, col) == \E i \in 1..Len(df.rows) : ~IsNum(df.rows[i][col])

(***************************************************************************)
(* DataFetcher.validate_option_data (data_fetcher.py 471-530).             *)
(***************************************************************************)
DefaultDte == 30          \* option_data['dte'] = 30
DefaultVolume == 100      \* option_data['volume'] = 100
DefaultIV == 30           \* option_data['implied_volatility'] = 0.3
MaxIV == 500              \* implied_volatility <= 5.0
MinVolume == 1            \* volume >= 1

RequiredFields == {"strike_price", "option_price", "dte"}
NumericColumns == {"strike_price", "option_price", "bid_price", "volume",
                   "implied_volatility", "dte"}

\* Variant of the required-field loop that forgets option_price.
MissingMandatoryOnlyStrike(df) == "strike_price" \notin df.cols

\* The required-field loop returns pd.DataFrame() for a missing field other
\* than dte.  The loop visits strike_price, option_price, dte in this order,
\* so dte is only reached when the other two exist.
MissingMandatory(df) ==
    "strike_price" \notin df.cols \/ "option_price" \notin df.cols

\* Variant of the price mask that keeps a zero price.
OptionPriceNonNegative(r) == IsNum(r["option_price"]) /\ r["option_price"].v >= 0

\* The row predicates of the three boolean-mask filters.
OptionPricePositive(r) == IsNum(r["option_price"]) /\ r["option_price"].v > 0

VolumeAtLeastMin(r) == IsNum(r["volume"]) /\ r["volume"].v >= MinVolume

IVAtMostMax(r) ==
    IsNum(r["implied_volatility"]) /\ r["implied_volatility"].v <= MaxIV

\* Series.fillna(0.3)
FillNA(c) == IF IsNA(c) THEN Num(DefaultIV) ELSE c

Returned(out, arg) == [status |-> "returned", out |-> out, arg |-> arg]
Raised(arg) == [status |-> "raised", out |-> EmptyFrame, arg |-> arg]

\* Lines 519-530: coercion of the numeric columns, astype(int) on dte and
\* the closing dropna.  arg is the caller's object as it is by now.
CoerceAndFinish(df, arg) ==
    LET Coerce(r) == [c \in df.cols |->
                        IF c \in NumericColumns THEN ToNumericCoerce(r[c])
                        ELSE r[c]]
        coerced == DataFrame(df.cols,
                             [i \in 1..Len(df.rows) |-> Coerce(df.rows[i])])
    IN  IF AsTypeIntRaises(coerced, "dte") THEN Raised(arg)
        ELSE Returned(DropNA(coerced, RequiredFields), arg)

\* Lines 509-517: implied-volatility filter and fill, or the default column.
FixImpliedVolatility(df, arg) ==
    IF "implied_volatility" \in df.cols
    THEN IF CompareRaises(df, "implied_volatility") THEN Raised(arg)
         ELSE CoerceAndFinish(
                  MapColumn(KeepWhere(df, IVAtMostMax),
                            "implied_volatility", FillNA), arg)
    ELSE CoerceAndFinish(SetColumn(df, "implied_volatility", Num(DefaultIV)), arg)

\* Variant of the volume step that treats volume as a mandatory column.
FilterVolumeMandatory(df, arg) ==
    IF "volume" \in df.cols
    THEN IF CompareRaises(df, "volume") THEN Raised(arg)
         ELSE FixImpliedVolatility(KeepWhere(df, VolumeAtLeastMin), arg)
    ELSE Returned(EmptyFrame, arg)

\* Lines 502-507: volume filter, or the default column.
FilterVolume(df, arg) ==
    IF "volume" \in df.cols
    THEN IF CompareRaises(df, "volume") THEN Raised(arg)
         ELSE FixImpliedVolatility(KeepWhere(df, VolumeAtLeastMin), arg)
    ELSE FixImpliedVolatility(SetColumn(df, "volume", Num(DefaultVolume)), arg)

\* Lines 496-500: dropna on the required fields (KeyError when one is not
\* a column), then the option_price > 0 mask.
DropInvalid(df, arg) ==
    IF ~(RequiredFields \subseteq df.cols) THEN Raised(arg)
    ELSE LET present == DropNA(df, RequiredFields)
         IN  IF CompareRaises(present, "option_price") THEN Raised(arg)
             ELSE FilterVolume(KeepWhere(present, OptionPricePositive), arg)

\* The whole function.  The result names the returned table (out), whether
\* the call raised (status) and the caller's object after the call (arg):
\* option_data[field] = 30 at line 491 writes into the caller's DataFrame.
validate_option_data(option_data) ==
    IF IsEmpty(option_data) THEN Returned(option_data, option_data)
    ELSE IF MissingMandatory(option_data) THEN Returned(EmptyFrame, option_data)
    ELSE IF "dte" \notin option_data.cols
         THEN LET filled == SetColumn(option_data, "dte", Num(DefaultDte))
              IN  DropInvalid(filled, filled)
         ELSE DropInvalid(option_data, option_data)

(***************************************************************************)
(* Raw option chains.  A raw row is the well-formed row, the well-formed   *)
(* row with one cell replaced, or one of a few rows with two bad cells.    *)
(***************************************************************************)
RawColumns == {"strike_price", "option_price", "dte", "volume",
               "implied_volatility", "bid_price"}

BaseRow == [strike_price |-> Num(100), option_price |-> Num(2),
            dte |-> Num(14), volume |-> Num(50),
            implied_volatility |-> Num(40), bid_price |-> Num(1)]

CellChoices(col) ==
    CASE col = "strike_price" -> {NaN, Bad}
      [] col = "option_price" -> {NaN, Bad, Num(0)}
      [] col = "dte" -> {NaN, Bad, Num(-1)}
      [] col = "volume" -> {NaN, Bad, Num(0), Num(1)}
      [] col = "implied_volatility" -> {NaN, Bad, Num(500), Num(600)}
      [] col = "bid_price" -> {NaN, Bad}

RawRows ==
    {BaseRow}
    \cup {[BaseRow EXCEPT ![c] = x] : <<c, x>> \in
             UNION {{<<col, y>> : y \in CellChoices(col)} : col \in RawColumns}}
    \cup {[BaseRow EXCEPT !["strike_price"] = NaN, !["option_price"] = Bad],
          [BaseRow EXCEPT !["option_price"] = Num(0), !["volume"] = Bad],
          [BaseRow EXCEPT !["volume"] = Num(0), !["implied_volatility"] = Bad],
          [BaseRow EXCEPT !["implied_volatility"] = Num(600), !["dte"] = Bad]}

SeqsUpTo(S, n) == UNION {[1..m -> S] : m \in 0..n}

\* The chain with only the columns cols.
Project(rows, cols) ==
    DataFrame(cols, [i \in 1..Len(rows) |-> [c \in cols |-> rows[i][c]]])

\* A frame without columns is pd.DataFrame(): it has no rows either.
RawChains ==
    {Project(rows, cols) : rows \in SeqsUpTo(RawRows, MaxRawRows),
                           cols \in SUBSET RawColumns \ {{}}}
    \cup {EmptyFrame}

NoCriteria == [min_annual_return |-> 0, max_assignment_prob |-> 0,
               min_volume |-> 0, max_dte |-> 0]

ScreenIdle ==
    /\ results_df = <<>>
    /\ criteria = NoCriteria
    /\ tieRank = <<>>
    /\ calls = 0
    /\ outputs = <<>>
    /\ helper_out = <<>>

\* OptionsCalculator.__init__: the rate a fresh calculator carries.
DefaultRiskFreeRate == 5

NoArgs == [S |-> 0, K |-> 0, T |-> 0, r |-> 0, sigma |-> 0,
           option_price |-> 0, option_type |-> "put"]
NoRet == [fn |-> "none"]

\* The calculator as constructed, with no call made on it.
CalcIdle ==
    /\ risk_free_rate = DefaultRiskFreeRate
    /\ args = NoArgs
    /\ ret = NoRet
    /\ solver = <<>>
    /\ analyses = <<>>

\* The fetcher as constructed, serving no request.
NoFetcher == [pc |-> "idle", last_request_time |-> 0]
FetchIdle == fetcher = NoFetcher

\* No page is running.
PageIdle ==
    /\ stock_info = 0
    /\ analysis_results = <<>>
    /\ ppc = "idle"

InitNorm ==
    /\ passed \in RawChains
    /\ raw = passed
    /\ clean = EmptyFrame
    /\ npc = "start"
    /\ ScreenIdle
    /\ CalcIdle
    /\ PageIdle
    /\ FetchIdle

\* One call of data_fetcher.validate_option_data(raw, current_price).
ValidateOptionData ==
    /\ npc = "start"
    /\ LET res == validate_option_data(raw)
       IN  /\ npc' = res.status
           /\ clean' = res.out
           /\ raw' = res.arg
    /\ UNCHANGED <<passed, screenVars, calcVars, pageVars, fetchVars>>

NextNorm == ValidateOptionData

SpecNorm == InitNorm /\ [][NextNorm]_vars

(***************************************************************************)
(* Properties of the normalizer, checked under SpecNorm.                   *)
(***************************************************************************)
CleanRows == {clean.rows[i] : i \in 1..Len(clean.rows)}
PassedIdx == 1..Len(passed.rows)

\* C3: every row of the table validate_option_data returns has a non-null
\* strike price, option price and days-to-expiry, an option price above 0,
\* a volume of at least 1 and an implied volatility of at most 5.0.
C3_OutputRowsValid ==
    npc = "returned" =>
        \A r \in CleanRows :
            /\ RequiredFields \cup {"volume", "implied_volatility"}
                   \subseteq clean.cols
            /\ IsNum(r["strike_price"])
            /\ IsNum(r["option_price"]) /\ r["option_price"].v > 0
            /\ IsNum(r["dte"])
            /\ IsNum(r["volume"]) /\ r["volume"].v >= 1
            /\ IsNum(r["implied_volatility"]) /\ r["implied_volatility"].v <= 500

\* A call that returned some rows and dropped others.
C3_Witness ==
    /\ npc = "returned"
    /\ Len(clean.rows) >= 1
    /\ Len(clean.rows) < Len(passed.rows)
    /\ \E i \in PassedIdx :
          /\ "option_price" \in passed.cols
          /\ passed.rows[i]["option_price"] = Num(0)

\* C4: a contract whose days-to-expiry is negative never appears in the
\* table validate_option_data returns.
C4_ExpiredRejected ==
    npc = "returned" =>
        \A r \in CleanRows : "dte" \in clean.cols => r["dte"].v >= 0

\* A passed row that is well formed in every column it has, except that its
\* implied volatility is missing.
OnlyIVMissing(r, cols) ==
    /\ "implied_volatility" \in cols /\ IsNA(r["implied_volatility"])
    /\ RequiredFields \subseteq cols
    /\ IsNum(r["strike_price"])
    /\ IsNum(r["option_price"]) /\ r["option_price"].v > 0
    /\ IsNum(r["dte"])
    /\ "volume" \in cols => IsNum(r["volume"]) /\ r["volume"].v >= 1
    /\ "bid_price" \in cols => IsNum(r["bid_price"])

\* C5: a row whose implied volatility is missing while its other fields are
\* valid is retained by the normalizer with implied volatility 0.30.
C5_MissingIVFilled ==
    npc = "returned" =>
        \A i \in PassedIdx :
            OnlyIVMissing(passed.rows[i], passed.cols) =>
                \E r \in CleanRows :
                    /\ r["implied_volatility"] = Num(30)
                    /\ r["strike_price"] = passed.rows[i]["strike_price"]
                    /\ r["option_price"] = passed.rows[i]["option_price"]
                    /\ r["dte"] = passed.rows[i]["dte"]

\* A passed row that no filter on a column the chain has would drop.
Acceptable(r, cols) ==
    /\ IsNum(r["strike_price"])
    /\ IsNum(r["option_price"]) /\ r["option_price"].v > 0
    /\ "dte" \in cols => IsNum(r["dte"])
    /\ "volume" \in cols => IsNum(r["volume"]) /\ r["volume"].v >= 1
    /\ "implied_volatility" \in cols =>
           IsNum(r["implied_volatility"]) /\ r["implied_volatility"].v <= 500

HasStrikeAndPrice == {"strike_price", "option_price"} \subseteq passed.cols

\* C6: when the chain has strike and option price but lacks the
\* days-to-expiry, volume or implied-volatility column, every output row
\* carries the default of the absent column (30, 100, 0.30) and the output
\* has exactly the rows that pass the checks on the columns the chain has.
C6_DefaultsForAbsentColumns ==
    (npc = "returned" /\ ~IsEmpty(passed) /\ HasStrikeAndPrice
        /\ {"dte", "volume", "implied_volatility"} \ passed.cols # {}) =>
        /\ "dte" \notin passed.cols =>
               \A r \in CleanRows : r["dte"] = Num(30)
        /\ "volume" \notin passed.cols =>
               \A r \in CleanRows : r["volume"] = Num(100)
        /\ "implied_volatility" \notin passed.cols =>
               \A r \in CleanRows : r["implied_volatility"] = Num(30)
        /\ Len(clean.rows) =
               Cardinality({i \in PassedIdx :
                               Acceptable(passed.rows[i], passed.cols)})

\* A chain without dte, volume and implied volatility whose rows all come
\* back, each with the three defaults.
C6_Witness ==
    /\ npc = "returned"
    /\ HasStrikeAndPrice
    /\ {"dte", "volume", "implied_volatility"} \cap passed.cols = {}
    /\ Len(passed.rows) = 2
    /\ Len(clean.rows) = 2
    /\ \A r \in CleanRows :
          /\ r["dte"] = Num(30)
          /\ r["volume"] = Num(100)
          /\ r["implied_volatility"] = Num(30)

\* C7: for a non-empty chain without the strike price column or without the
\* option price column the normalizer raises nothing and returns an empty
\* table.
C7_MissingMandatoryColumn ==
    (~IsEmpty(passed) /\ ~HasStrikeAndPrice) =>
        /\ npc # "raised"
        /\ npc = "returned" => IsEmpty(clean) /\ clean = EmptyFrame

\* A chain with rows and a strike column but no option price column, after
\* the call.
C7_Witness ==
    /\ npc = "returned"
    /\ Len(passed.rows) >= 1
    /\ "strike_price" \in passed.cols
    /\ "option_price" \notin passed.cols
    /\ clean = EmptyFrame

\* The passed rows with no unparseable cell in a numeric column.
ParseableIdx ==
    {i \in PassedIdx :
        \A c \in passed.cols \cap NumericColumns : ~IsStr(passed.rows[i][c])}

\* C8: the normalizer never raises on an unparseable cell of a numeric
\* column: the row of such a cell is dropped and the other rows come back
\* with a numeric days-to-expiry.
C8_NeverRaisesOnBadCells ==
    /\ npc # "raised"
    /\ npc = "returned" =>
           /\ Len(clean.rows) <= Cardinality(ParseableIdx)
           /\ \A r \in CleanRows : "dte" \in clean.cols => IsNum(r["dte"])

\* C22: the normalizer leaves its input unchanged: once validate_option_data
\* is over, the table the caller passed has the columns and the rows it had
\* before the call, also when it lacks the dte column.
C22_InputUnchanged ==
    npc # "start" => raw = passed

(***************************************************************************)
(* Yields.  calculate_annualized_return divides floats; the model keeps    *)
(* the quotient as an exact fraction with a positive denominator.          *)
(***************************************************************************)
Frac(n, d) == [num |-> n, den |-> d]
FracGE(a, b) == a.num * b.den >= b.num * a.den
FracGT(a, b) == a.num * b.den > b.num * a.den
FracEQ(a, b) == a.num * b.den = b.num * a.den

DaysPerYear == 365

\* Variant whose guard lets dte = 0 through to the division.
calculate_annualized_return_negative_dte(option_price, strike_price, dte) ==
    IF dte < 0 \/ option_price <= 0 THEN Frac(0, 1)
    ELSE Frac(option_price * DaysPerYear, strike_price * dte)

\* OptionsCalculator.calculate_annualized_return
calculate_annualized_return(option_price, strike_price, dte) ==
    IF dte <= 0 \/ option_price <= 0 THEN Frac(0, 1)
    ELSE Frac(option_price * DaysPerYear, strike_price * dte)

(***************************************************************************)
(* The analytics table of the batch put page (pages/2, lines 146-199):     *)
(* one record per contract, analyze_option's result updated with the       *)
(* contract's own fields.                                                  *)
(***************************************************************************)
AnalyzeOptionKeys ==
    {"implied_volatility", "delta", "gamma", "theta", "vega",
     "assignment_probability", "annualized_return", "breakeven_price",
     "max_profit", "max_loss", "risk_reward_ratio"}

\* Variant of the page's update that forgets dte, as pages/1 does.
BatchUpdateKeysNoDte ==
    {"symbol", "stock_name", "current_price", "sector", "expiration_date",
     "volume", "open_interest", "bid_price", "ask_price", "strike_price"}

\* analysis.update({...}) at lines 164-176.
BatchUpdateKeys ==
    {"symbol", "stock_name", "current_price", "sector", "expiration_date",
     "volume", "open_interest", "bid_price", "ask_price", "dte", "strike_price"}

\* Columns of pd.DataFrame(all_results).
ResultColumns == AnalyzeOptionKeys \cup BatchUpdateKeys

\* The record of one put: the fields the screening step reads.  The
\* assignment probability (percent) is the calculator's output for the
\* contract; the yield is computed from the contract's price, strike and dte.
AnalysisRecord(symbol, S, K, dte, option_price, volume, prob) ==
    [symbol |-> symbol, current_price |-> S, strike_price |-> K, dte |-> dte,
     volume |-> volume, assignment_probability |-> prob,
     annualized_return |-> calculate_annualized_return(option_price, K, dte)]

\* The fallback quote of AAPL.
Spot == 175

AnalysisRows ==
    {AnalysisRecord("AAPL", Spot, 160, 28, 4, 100, 20),   \* 32.6%
     AnalysisRecord("AAPL", Spot, 160, 14, 2, 100, 20),   \* 32.6%, other cells
     AnalysisRecord("AAPL", Spot, 160, 28, 2, 100, 20),   \* 16.3%: yield too low
     AnalysisRecord("AAPL", Spot, 160, 40, 8, 100, 20),   \* 45.6%: dte too long
     AnalysisRecord("AAPL", Spot, 160, 28, 4, 100, 50),   \* probability too high
     AnalysisRecord("AAPL", Spot, 160, 28, 4, 10, 20),    \* volume too low
     AnalysisRecord("AAPL", Spot, 175, 28, 4, 100, 20)}   \* at the money

\* Sidebar values: the widgets' defaults and their most lenient settings.
DefaultCriteria == [min_annual_return |-> 25, max_assignment_prob |-> 30,
                    min_volume |-> 50, max_dte |-> 30]
LenientCriteria == [min_annual_return |-> 10, max_assignment_prob |-> 60,
                    min_volume |-> 1, max_dte |-> 45]
CriteriaChoices == {DefaultCriteria, LenientCriteria}

\* Variant of the mask that keeps at-the-money strikes.
PutScreenMaskAtOrBelow(r, crit) ==
    /\ FracGE(r.annualized_return, Frac(crit.min_annual_return, 100))
    /\ r.assignment_probability <= crit.max_assignment_prob
    /\ r.volume >= crit.min_volume
    /\ r.dte <= crit.max_dte
    /\ r.strike_price <= r.current_price

\* The boolean mask of lines 202-208.
PutScreenMask(r, crit) ==
    /\ FracGE(r.annualized_return, Frac(crit.min_annual_return, 100))
    /\ r.assignment_probability <= crit.max_assignment_prob
    /\ r.volume >= crit.min_volume
    /\ r.dte <= crit.max_dte
    /\ r.strike_price < r.current_price

\* Columns the mask reads; a column that is not in the frame is a KeyError.
ScreenedColumns == {"annualized_return", "assignment_probability", "volume",
                    "dte", "strike_price", "current_price"}

\* Variant of the tie order that alternates from one call to the next.
TieOrderAlternating(call, rank) ==
    IF call % 2 = 0 THEN [i \in DOMAIN rank |-> Len(rank) + 1 - rank[i]]
    ELSE rank

\* The order in which the call-th argsort of this process leaves equal keys:
\* numpy's quicksort keeps no state between calls, so it is the build's.
TieOrder(call, rank) == rank

\* DataFrame.sort_values('annualized_return', ascending=False) with the
\* default kind='quicksort': descending by yield; rows of equal yield come
\* out in the order rank gives their positions, which is not the input
\* order unless the build's quicksort happens to be stable.
sort_values(rows, rank) ==
    LET n == Len(rows)
        Before(i, j) ==
            \/ FracGT(rows[i].annualized_return, rows[j].annualized_return)
            \/ /\ FracEQ(rows[i].annualized_return, rows[j].annualized_return)
               /\ rank[i] < rank[j]
        Place(i) == 1 + Cardinality({j \in 1..n : Before(j, i)})
    IN  [k \in 1..n |-> rows[CHOOSE i \in 1..n : Place(i) = k]]

Outcome(status, table) == [status |-> status, table |-> table]

\* Lines 194-216 of the batch page on the table all_results.
ScreenOutcome(all_results, crit, call, rank) ==
    IF all_results = <<>> THEN Outcome("no_results", <<>>)
    ELSE IF ~(ScreenedColumns \subseteq ResultColumns)
         THEN Outcome("raised", <<>>)
    ELSE LET filtered_df ==
                 SelectSeqBy(all_results,
                             Mask(all_results, LAMBDA r : PutScreenMask(r, crit)))
         IN  IF filtered_df = <<>> THEN Outcome("empty", <<>>)
             ELSE Outcome("ranked",
                          sort_values(filtered_df, TieOrder(call, rank)))

(***************************************************************************)
(* utils.filter_options_by_criteria: the same thresholds as a function of  *)
(* a criteria dict, every key of which is optional.                        *)
(***************************************************************************)
PageKeys == {"min_annual_return", "max_assignment_prob", "min_volume", "max_dte"}

\* Dicts a caller can build from the sidebar values: all four thresholds,
\* the yield threshold alone, and the four with the dte and strike ranges.
CriteriaDicts(crit) ==
    LET full == [min_annual_return |-> crit.min_annual_return,
                 max_assignment_prob |-> crit.max_assignment_prob,
                 min_volume |-> crit.min_volume,
                 max_dte |-> crit.max_dte,
                 min_dte |-> 20, min_strike_price |-> 150,
                 max_strike_price |-> 170]
    IN  {[k \in keys |-> full[k]] :
            keys \in {PageKeys, {"min_annual_return"}, DOMAIN full}}

\* if key in criteria: filtered_data = filtered_data[<mask>]
FilterIf(rows, dict, key, P(_)) ==
    IF key \in DOMAIN dict THEN SelectSeqBy(rows, Mask(rows, P)) ELSE rows

filter_options_by_criteria(data, dict) ==
    IF data = <<>> THEN data
    ELSE LET f1 == FilterIf(data, dict, "min_annual_return",
                      LAMBDA r : FracGE(r.annualized_return,
                                        Frac(dict["min_annual_return"], 100)))
             f2 == FilterIf(f1, dict, "max_assignment_prob",
                      LAMBDA r : r.assignment_probability
                                     <= dict["max_assignment_prob"])
             f3 == FilterIf(f2, dict, "min_volume",
                      LAMBDA r : r.volume >= dict["min_volume"])
             f4 == FilterIf(f3, dict, "max_dte",
                      LAMBDA r : r.dte <= dict["max_dte"])
             f5 == FilterIf(f4, dict, "min_dte",
                      LAMBDA r : r.dte >= dict["min_dte"])
             f6 == FilterIf(f5, dict, "min_strike_price",
                      LAMBDA r : r.strike_price >= dict["min_strike_price"])
         IN  FilterIf(f6, dict, "max_strike_price",
                      LAMBDA r : r.strike_price <= dict["max_strike_price"])


NormIdle ==
    /\ passed = EmptyFrame
    /\ raw = EmptyFrame
    /\ clean = EmptyFrame
    /\ npc = "start"

InitScreen ==
    /\ NormIdle
    /\ results_df \in SeqsUpTo(AnalysisRows, MaxRows)
    /\ criteria \in CriteriaChoices
    /\ tieRank \in Permutations(1..MaxRows)
    /\ calls = 0
    /\ outputs = <<>>
    /\ helper_out = <<>>
    /\ CalcIdle
    /\ PageIdle
    /\ FetchIdle

\* One run of the page's screening and ranking on the analytics table.  The
\* mask builds a copy, so the table itself is left alone.
ScreenAndRank ==
    /\ calls < MaxCalls
    /\ calls' = calls + 1
    /\ outputs' = Append(outputs,
                         ScreenOutcome(results_df, criteria, calls + 1, tieRank))
    /\ UNCHANGED <<normVars, results_df, criteria, tieRank, helper_out,
                   calcVars, pageVars, fetchVars>>

\* One call of filter_options_by_criteria on the analytics table; helper_out
\* keeps the dict and the table of the latest call.
FilterOptionsByCriteria ==
    /\ \E dict \in CriteriaDicts(criteria) :
          helper_out' = <<[dict |-> dict,
                           out |-> filter_options_by_criteria(results_df, dict)]>>
    /\ UNCHANGED <<normVars, results_df, criteria, tieRank, calls, outputs,
                   calcVars, pageVars, fetchVars>>

NextScreen == ScreenAndRank \/ FilterOptionsByCriteria

SpecScreen == InitScreen /\ [][NextScreen]_vars

(***************************************************************************)
(* Properties of screening and ranking, checked under SpecScreen.          *)
(***************************************************************************)
Count(seq, x) == Cardinality({i \in 1..Len(seq) : seq[i] = x})
SameRows(s, t) ==
    /\ Len(s) = Len(t)
    /\ \A i \in 1..Len(s) : Count(s, s[i]) = Count(t, s[i])

\* The five conditions of the put screen, as the specification states them.
SatisfiesAll(r) ==
    /\ r.annualized_return.num * 100
           >= criteria.min_annual_return * r.annualized_return.den
    /\ r.assignment_probability <= criteria.max_assignment_prob
    /\ r.volume >= criteria.min_volume
    /\ r.dte <= criteria.max_dte
    /\ r.strike_price < r.current_price

Satisfying == SelectSeq(results_df, SatisfiesAll)

Descending(t) ==
    \A i, j \in 1..Len(t) :
        i < j => t[i].annualized_return.num * t[j].annualized_return.den
                     >= t[j].annualized_return.num * t[i].annualized_return.den

\* Rows of equal yield stand in t in the order they have in the input.
TiesInInputOrder(t, input) ==
    \A i, j \in 1..Len(t) :
        (i < j /\ t[i] # t[j]
            /\ t[i].annualized_return.num * t[j].annualized_return.den
                   = t[j].annualized_return.num * t[i].annualized_return.den) =>
            \E a, b \in 1..Len(input) :
                a < b /\ input[a] = t[i] /\ input[b] = t[j]

\* C2: the ranked result is in descending order of annualized return and
\* rows of equal annualized return keep their relative input order.
C2_RankedDescendingAndStable ==
    \A k \in 1..Len(outputs) :
        outputs[k].status = "ranked" =>
            /\ Descending(outputs[k].table)
            /\ TiesInInputOrder(outputs[k].table, results_df)

\* No row of the analytics table satisfies the criteria.
NoneSatisfies == \A i \in 1..Len(results_df) : ~SatisfiesAll(results_df[i])

\* A row meets every threshold the dict holds.
SatisfiesDict(r, dict) ==
    /\ "min_annual_return" \in DOMAIN dict =>
           r.annualized_return.num * 100
               >= dict["min_annual_return"] * r.annualized_return.den
    /\ "max_assignment_prob" \in DOMAIN dict =>
           r.assignment_probability <= dict["max_assignment_prob"]
    /\ "min_volume" \in DOMAIN dict => r.volume >= dict["min_volume"]
    /\ "max_dte" \in DOMAIN dict => r.dte <= dict["max_dte"]
    /\ "min_dte" \in DOMAIN dict => r.dte >= dict["min_dte"]
    /\ "min_strike_price" \in DOMAIN dict =>
           r.strike_price >= dict["min_strike_price"]
    /\ "max_strike_price" \in DOMAIN dict =>
           r.strike_price <= dict["max_strike_price"]

NoneSatisfiesDict(dict) ==
    \A i \in 1..Len(results_df) : ~SatisfiesDict(results_df[i], dict)

\* C9: when no row satisfies the criteria the screening run ends without an
\* exception and with an empty table.
C9_EmptyResultIsValid ==
    /\ \A k \in 1..Len(outputs) :
          NoneSatisfies =>
              /\ outputs[k].status \in {"empty", "no_results"}
              /\ outputs[k].table = <<>>
    /\ \A k \in 1..Len(helper_out) :
          NoneSatisfiesDict(helper_out[k].dict) => helper_out[k].out = <<>>

\* A run on a table with rows, none of which satisfies: the yield threshold
\* lies above the yield of every row.
C9_Witness ==
    /\ Len(outputs) >= 1
    /\ Len(results_df) >= 2
    /\ \A i \in 1..Len(results_df) :
          results_df[i].annualized_return.num * 100
              < criteria.min_annual_return * results_df[i].annualized_return.den
    /\ outputs[1] = Outcome("empty", <<>>)
    /\ Len(helper_out) = 1
    /\ helper_out[1].out = <<>>

Max(a, b) == IF a >= b THEN a ELSE b

\* float('inf').
Inf == [k |-> "inf", v |-> 0]
\* A number computed from a finite d1 or d2 at the inputs `at` by the
\* expression `form`.  range is <<lo, hi>> when the expression is known to
\* lie between lo and hi, and <<>> otherwise.
ClosedFormValue(form, at, range) ==
    [k |-> "closed_form", v |-> 0, form |-> form, at |-> at, range |-> range]
\* The expression divided by zero: ZeroDivisionError on Python numbers,
\* inf or nan on numpy numbers.
Degenerate == [k |-> "degenerate", v |-> 0]

Result(value, kernel) == [value |-> value, kernel |-> kernel]

\* d1 and d2 as written at lines 42-43, 65-66 and 76-77: S / K and a
\* division by sigma * sqrt(T).
ClosedForm(S, K, T, r, sigma) ==
    IF K = 0 \/ sigma = 0 \/ T <= 0 THEN Degenerate
    ELSE ClosedFormValue("d", <<S, K, T, r, sigma>>, <<>>)

\* name(x): a further expression of the closed form x, of unknown range.
Derived(name, x) ==
    IF x = Degenerate THEN x ELSE [x EXCEPT !.form = name, !.range = <<>>]

\* scipy.stats.norm.cdf: a probability, whatever its finite argument is.
norm_cdf(x) ==
    IF x = Degenerate THEN x ELSE [x EXCEPT !.form = "cdf", !.range = <<0, 1>>]

\* -x.
Neg(x) ==
    IF x = Degenerate \/ x.range = <<>> THEN x
    ELSE [x EXCEPT !.range = <<-x.range[2], -x.range[1]>>]

\* The closed form applied after calculate_d1_d2.
FromD1D2(name, d) == Result(Derived(name, d.value), d.kernel)

\* Variant without the expiry branch.
black_scholes_put_unguarded(S, K, T, r, sigma) ==
    Result(Derived("put_price", ClosedForm(S, K, T, r, sigma)), TRUE)

black_scholes_put(S, K, T, r, sigma) ==
    IF T <= 0 THEN Result(Num(Max(K - S, 0)), FALSE)
    ELSE Result(Derived("put_price", ClosedForm(S, K, T, r, sigma)), TRUE)

black_scholes_call(S, K, T, r, sigma) ==
    IF T <= 0 THEN Result(Num(Max(S - K, 0)), FALSE)
    ELSE Result(Derived("call_price", ClosedForm(S, K, T, r, sigma)), TRUE)

calculate_d1_d2(S, K, T, r, sigma) ==
    IF T <= 0 THEN Result(Num(0), FALSE)
    ELSE Result(ClosedForm(S, K, T, r, sigma), TRUE)

\* Variant that returns norm.cdf(-d1) without the leading minus.
calculate_delta_put_unsigned(S, K, T, r, sigma) ==
    IF T <= 0 THEN Result(Num(IF S < K THEN -1 ELSE 0), FALSE)
    ELSE LET d == calculate_d1_d2(S, K, T, r, sigma)
         IN  Result(norm_cdf(Neg(d.value)), d.kernel)

\* -norm.cdf(-d1).
calculate_delta_put(S, K, T, r, sigma) ==
    IF T <= 0 THEN Result(Num(IF S < K THEN -1 ELSE 0), FALSE)
    ELSE LET d == calculate_d1_d2(S, K, T, r, sigma)
         IN  Result(Neg(norm_cdf(Neg(d.value))), d.kernel)

\* Variant that counts the at-the-money call as exercised.
calculate_delta_call_at_or_above(S, K, T, r, sigma) ==
    IF T <= 0 THEN Result(Num(IF S >= K THEN 1 ELSE 0), FALSE)
    ELSE LET d == calculate_d1_d2(S, K, T, r, sigma)
         IN  Result(norm_cdf(d.value), d.kernel)

\* norm.cdf(d1).
calculate_delta_call(S, K, T, r, sigma) ==
    IF T <= 0 THEN Result(Num(IF S > K THEN 1 ELSE 0), FALSE)
    ELSE LET d == calculate_d1_d2(S, K, T, r, sigma)
         IN  Result(norm_cdf(d.value), d.kernel)

calculate_gamma(S, K, T, r, sigma) ==
    IF T <= 0 THEN Result(Num(0), FALSE)
    ELSE FromD1D2("gamma", calculate_d1_d2(S, K, T, r, sigma))

calculate_theta_put(S, K, T, r, sigma) ==
    IF T <= 0 THEN Result(Num(0), FALSE)
    ELSE FromD1D2("theta_put", calculate_d1_d2(S, K, T, r, sigma))

calculate_theta_call(S, K, T, r, sigma) ==
    IF T <= 0 THEN Result(Num(0), FALSE)
    ELSE FromD1D2("theta_call", calculate_d1_d2(S, K, T, r, sigma))

\* Variant without the expiry branch.
calculate_vega_unguarded(S, K, T, r, sigma) ==
    Result(Derived("vega", ClosedForm(S, K, T, r, sigma)), TRUE)

calculate_vega(S, K, T, r, sigma) ==
    IF T <= 0 THEN Result(Num(0), FALSE)
    ELSE FromD1D2("vega", calculate_d1_d2(S, K, T, r, sigma))

\* Probabilities are in percent: 1.0 is 100.
Certain == 100

calculate_assignment_probability(S, K, T, r, sigma, option_type) ==
    IF T <= 0
    THEN IF option_type = "put"
         THEN Result(Num(IF S <= K THEN Certain ELSE 0), FALSE)
         ELSE Result(Num(IF S >= K THEN Certain ELSE 0), FALSE)
    ELSE LET d == calculate_d1_d2(S, K, T, r, sigma)
             p == norm_cdf(IF option_type = "put" THEN Neg(d.value) ELSE d.value)
         IN  Result(IF p = Degenerate THEN p
                    ELSE [p EXCEPT !.form = option_type, !.range = <<0, Certain>>],
                    d.kernel)

calculate_breakeven_price(strike_price, option_price, option_type) ==
    IF option_type = "put" THEN Num(strike_price - option_price)
    ELSE Num(strike_price + option_price)

calculate_max_profit_loss(option_price, strike_price, current_price, option_type) ==
    IF option_type = "put"
    THEN [max_profit |-> Num(option_price),
          max_loss |-> Num(strike_price - option_price)]
    ELSE [max_profit |-> Num(option_price), max_loss |-> Inf]

\* bounds=(0.01, 5.0) of the solver and the volatility returned when it fails.
MinSigma == 1
MaxSigma == 500
FallbackSigma == 30

\* Points of the search interval the solver may stop at.
SolverGrid == {MinSigma, (MinSigma + MaxSigma) \div 2, MaxSigma}

\* scipy.optimize.minimize_scalar(objective, bounds, method='bounded'): it
\* stops at a point of the interval and reports success or not, or the
\* call raises.  Which of these happens is not computed here.
minimize_scalar ==
    {[status |-> st, x |-> x] : st \in {"converged", "not_converged"},
                                x \in SolverGrid}
    \cup {[status |-> "raised", x |-> 0]}

\* objective(sigma) at lines 231-236: the option priced at a trial sigma.
objective(sigma, S, K, T, r, option_type) ==
    IF option_type = "put" THEN black_scholes_put(S, K, T, r, sigma)
    ELSE black_scholes_call(S, K, T, r, sigma)

\* Variant that returns result.x whether or not the solver succeeded.
calculate_implied_volatility_unchecked(market_price, S, K, T, r, option_type) ==
    {[value |-> IF o.status = "raised" THEN Num(FallbackSigma) ELSE Num(o.x),
      kernel |-> objective(MinSigma, S, K, T, r, option_type).kernel,
      solver |-> o.status] : o \in minimize_scalar}

\* Variant whose fallback is no volatility at all.
calculate_implied_volatility_zero(market_price, S, K, T, r, option_type) ==
    {[value |-> IF o.status = "converged" THEN Num(o.x) ELSE Num(0),
      kernel |-> objective(MinSigma, S, K, T, r, option_type).kernel,
      solver |-> o.status] : o \in minimize_scalar}

\* The set of results the call can have: result.x if result.success else
\* 0.3, and 0.3 from the except branch.  d1 and d2 are evaluated when the
\* objective evaluates them.
calculate_implied_volatility(market_price, S, K, T, r, option_type) ==
    {[value |-> IF o.status = "converged" THEN Num(o.x) ELSE Num(FallbackSigma),
      kernel |-> objective(MinSigma, S, K, T, r, option_type).kernel,
      solver |-> o.status] : o \in minimize_scalar}

\* max_loss > 0 at line 295; float('inf') > 0 holds.
Positive(x) == x = Inf \/ (IsNum(x) /\ x.v > 0)

\* Variant that also divides when max_loss is 0.
risk_reward_ratio_nonnegative(max_profit, max_loss) ==
    IF max_loss = Inf THEN Frac(0, 1)
    ELSE IF max_loss.v >= 0 THEN Frac(max_profit.v, max_loss.v)
    ELSE Inf

\* max_profit / max_loss if max_loss > 0 else float('inf'); a finite
\* premium divided by inf is 0.0.
risk_reward_ratio(max_profit, max_loss) ==
    IF max_loss = Inf THEN Frac(0, 1)
    ELSE IF Positive(max_loss) THEN Frac(max_profit.v, max_loss.v)
    ELSE Inf

\* analyze_option(option_data): the set of dicts the call can return, each
\* with the flag whether d1 and d2 were evaluated anywhere in the call.
analyze_option(option_data) ==
    LET S == option_data.current_price
        K == option_data.strike_price
        dte == option_data.dte
        T == dte              \* dte / 365.0, counted in days
        r == risk_free_rate
        option_price == option_data.option_price
        option_type == option_data.option_type
        pl == calculate_max_profit_loss(option_price, K, S, option_type)
    IN  {LET sigma == iv.value.v
             delta == IF option_type = "put"
                      THEN calculate_delta_put(S, K, T, r, sigma)
                      ELSE calculate_delta_call(S, K, T, r, sigma)
             theta == IF option_type = "put"
                      THEN calculate_theta_put(S, K, T, r, sigma)
                      ELSE calculate_theta_call(S, K, T, r, sigma)
             gamma == calculate_gamma(S, K, T, r, sigma)
             vega == calculate_vega(S, K, T, r, sigma)
             prob == calculate_assignment_probability(S, K, T, r, sigma,
                                                      option_type)
         IN  [value |->
                 [implied_volatility |-> iv.value,
                  delta |-> delta.value,
                  gamma |-> gamma.value,
                  theta |-> theta.value,
                  vega |-> vega.value,
                  assignment_probability |-> prob.value,
                  annualized_return |->
                      calculate_annualized_return(option_price, K, dte),
                  breakeven_price |->
                      calculate_breakeven_price(K, option_price, option_type),
                  max_profit |-> pl.max_profit,
                  max_loss |-> pl.max_loss,
                  risk_reward_ratio |->
                      risk_reward_ratio(pl.max_profit, pl.max_loss)],
              kernel |-> iv.kernel \/ delta.kernel \/ theta.kernel
                         \/ gamma.kernel \/ vega.kernel \/ prob.kernel,
              solver |-> iv.solver]
         : iv \in calculate_implied_volatility(option_price, S, K, T, r,
                                               option_type)}

(***************************************************************************)
(* Calls on the calculator.  A behaviour draws the arguments once and      *)
(* makes one call with them.                                               *)
(***************************************************************************)
SpotChoices == {Spot - 1, Spot, Spot + 1}
StrikeChoices == {0, Spot}
DayChoices == {-1, 0, DefaultDte}
SigmaChoices == {0, DefaultIV}
PriceChoices == {0, 2, Spot}

CalcArgs ==
    [S : SpotChoices, K : StrikeChoices, T : DayChoices,
     r : {DefaultRiskFreeRate}, sigma : SigmaChoices,
     option_price : PriceChoices, option_type : {"put", "call"}]

InitCalc ==
    /\ NormIdle
    /\ ScreenIdle
    /\ PageIdle
    /\ FetchIdle
    /\ risk_free_rate = DefaultRiskFreeRate
    /\ args \in CalcArgs
    /\ ret = NoRet
    /\ solver = <<>>
    /\ analyses = <<>>

Returns(fn, res) ==
    /\ ret = NoRet
    /\ ret' = [fn |-> fn, value |-> res.value, kernel |-> res.kernel]
    /\ UNCHANGED <<normVars, screenVars, pageVars, fetchVars,
                   risk_free_rate, args, solver, analyses>>

BlackScholesPut ==
    Returns("black_scholes_put",
            black_scholes_put(args.S, args.K, args.T, args.r, args.sigma))

BlackScholesCall ==
    Returns("black_scholes_call",
            black_scholes_call(args.S, args.K, args.T, args.r, args.sigma))

CalculateDeltaPut ==
    Returns("calculate_delta_put",
            calculate_delta_put(args.S, args.K, args.T, args.r, args.sigma))

CalculateDeltaCall ==
    Returns("calculate_delta_call",
            calculate_delta_call(args.S, args.K, args.T, args.r, args.sigma))

CalculateGamma ==
    Returns("calculate_gamma",
            calculate_gamma(args.S, args.K, args.T, args.r, args.sigma))

CalculateThetaPut ==
    Returns("calculate_theta_put",
            calculate_theta_put(args.S, args.K, args.T, args.r, args.sigma))

CalculateThetaCall ==
    Returns("calculate_theta_call",
            calculate_theta_call(args.S, args.K, args.T, args.r, args.sigma))

CalculateVega ==
    Returns("calculate_vega",
            calculate_vega(args.S, args.K, args.T, args.r, args.sigma))

CalculateAssignmentProbability ==
    Returns("calculate_assignment_probability",
            calculate_assignment_probability(args.S, args.K, args.T, args.r,
                                             args.sigma, args.option_type))

\* calculate_annualized_return(option_price, strike_price, dte) with the
\* days of the arguments as dte.
CalculateAnnualizedReturn ==
    Returns("calculate_annualized_return",
            Result(calculate_annualized_return(args.option_price, args.K,
                                               args.T), FALSE))

CalculateImpliedVolatility ==
    /\ ret = NoRet
    /\ \E res \in calculate_implied_volatility(args.option_price, args.S,
                      args.K, args.T, args.r, args.option_type) :
          ret' = [fn |-> "calculate_implied_volatility", value |-> res.value,
                  kernel |-> res.kernel, solver |-> res.solver]
    /\ UNCHANGED <<normVars, screenVars, pageVars, fetchVars,
                   risk_free_rate, args, solver, analyses>>

\* The option_data dict built from the arguments.
OptionData(a) ==
    [current_price |-> a.S, strike_price |-> a.K, dte |-> a.T,
     option_price |-> a.option_price, option_type |-> a.option_type]

AnalyzeOption ==
    /\ ret = NoRet
    /\ \E res \in analyze_option(OptionData(args)) :
          ret' = [fn |-> "analyze_option", value |-> res.value,
                  kernel |-> res.kernel, solver |-> res.solver]
    /\ UNCHANGED <<normVars, screenVars, pageVars, fetchVars,
                   risk_free_rate, args, solver, analyses>>

NextCalc ==
    \/ BlackScholesPut
    \/ BlackScholesCall
    \/ CalculateDeltaPut
    \/ CalculateDeltaCall
    \/ CalculateGamma
    \/ CalculateThetaPut
    \/ CalculateThetaCall
    \/ CalculateVega
    \/ CalculateAssignmentProbability
    \/ CalculateAnnualizedReturn
    \/ CalculateImpliedVolatility
    \/ AnalyzeOption

SpecCalc == InitCalc /\ [][NextCalc]_vars

(***************************************************************************)
(* Properties of the calculator.                                           *)
(***************************************************************************)
Called(fn) == ret.fn = fn
Expired == args.T <= 0

\* C11: for T <= 0 the price functions return the intrinsic value,
\* max(K - S, 0) for a put and max(S - K, 0) for a call, for every S, K, r
\* and sigma, and they do not raise even when sigma is 0.
C11_ExpiredPriceIsIntrinsic ==
    Expired =>
        /\ Called("black_scholes_put")
               => ret.value = Num(Max(args.K - args.S, 0))
        /\ Called("black_scholes_call")
               => ret.value = Num(Max(args.S - args.K, 0))

\* An expired in-the-money put priced with sigma = 0.
C11_Witness ==
    /\ Called("black_scholes_put")
    /\ args.T = 0
    /\ args.sigma = 0
    /\ args.K = args.S + 1
    /\ ret.value = Num(1)

\* C12: for T <= 0 the Greeks are their discrete limits and d1, d2 are not
\* evaluated: call delta is 1 if S > K else 0, put delta is -1 if S < K
\* else 0, and gamma, both thetas and vega are 0.
C12_ExpiredGreeksAreLimits ==
    Expired =>
        /\ Called("calculate_delta_call")
               => /\ ret.value = Num(IF args.S > args.K THEN 1 ELSE 0)
                  /\ ~ret.kernel
        /\ Called("calculate_delta_put")
               => /\ ret.value = Num(IF args.S < args.K THEN -1 ELSE 0)
                  /\ ~ret.kernel
        /\ ret.fn \in {"calculate_gamma", "calculate_theta_put",
                       "calculate_theta_call", "calculate_vega"}
               => /\ ret.value = Num(0)
                  /\ ~ret.kernel

\* The delta of an expired call exactly at the money.
C12_Witness ==
    /\ Called("calculate_delta_call")
    /\ args.T = 0
    /\ args.S = args.K
    /\ ret.value = Num(0)

\* Spot is already past the strike: below it for a put, above it for a call.
PastStrike ==
    IF args.option_type = "put" THEN args.S < args.K ELSE args.S > args.K

\* C13: for T <= 0 the assignment probability is exactly 0 or 1: 1 if spot
\* is already past the strike (S < K for a put, S > K for a call) and 0
\* otherwise.
C13_ExpiredAssignmentIsPastStrike ==
    (Expired /\ Called("calculate_assignment_probability"))
        => ret.value = Num(IF PastStrike THEN Certain ELSE 0)

C16_ImpliedVolatilityInBounds ==
    Called("calculate_implied_volatility") =>
        /\ IsNum(ret.value)
        /\ ret.value.v >= MinSigma
        /\ ret.value.v <= MaxSigma

\* The solver converged at the upper end of the interval.
C16_Witness ==
    /\ Called("calculate_implied_volatility")
    /\ ret.solver = "converged"
    /\ ret.value = Num(MaxSigma)

\* C17: if the solver does not converge or raises, the implied volatility
\* is exactly 0.30 and no error propagates, so analyze_option still
\* completes (with that volatility).
C17_SolverFailureGivesFallback ==
    /\ (Called("calculate_implied_volatility") /\ ret.solver # "converged")
           => ret.value = Num(FallbackSigma)
    /\ (Called("analyze_option") /\ ret.solver # "converged")
           => ret.value.implied_volatility = Num(FallbackSigma)

\* analyze_option returned although the solver raised.
C17_Witness ==
    /\ Called("analyze_option")
    /\ ret.solver = "raised"
    /\ ret.value.implied_volatility = Num(FallbackSigma)

\* C18: calculate_annualized_return returns 0 whenever dte <= 0 or
\* option_price <= 0, and (option_price / strike_price) * (365 / dte)
\* otherwise; it never divides by a zero dte.
C18_AnnualizedReturnGuarded ==
    Called("calculate_annualized_return") =>
        IF args.T <= 0 \/ args.option_price <= 0
        THEN ret.value = Frac(0, 1)
        ELSE /\ ret.value.den = args.K * args.T
             /\ FracEQ(ret.value,
                       Frac(args.option_price * DaysPerYear,
                            args.K * args.T))

\* A positive premium at dte = 0: the guard answers, nothing is divided.
C18_Witness ==
    /\ Called("calculate_annualized_return")
    /\ args.T = 0
    /\ args.option_price > 0
    /\ ret.value = Frac(0, 1)

\* C19: the risk/reward ratio analyze_option returns is
\* max_profit / max_loss when max_loss > 0 and +infinity when max_loss is 0.
C19_RiskRewardRatio ==
    Called("analyze_option") =>
        LET a == ret.value
        IN  /\ (IsNum(a.max_loss) /\ a.max_loss.v > 0)
                   => a.risk_reward_ratio
                          = Frac(a.max_profit.v, a.max_loss.v)
            /\ a.max_loss = Inf => a.risk_reward_ratio = Frac(0, 1)
            /\ a.max_loss = Num(0) => a.risk_reward_ratio = Inf

\* A put whose premium equals its strike: max_loss is 0.
C19_Witness ==
    /\ Called("analyze_option")
    /\ args.option_type = "put"
    /\ ret.value.max_loss = Num(0)
    /\ ret.value.risk_reward_ratio = Inf

\* The documented domain of the pricing functions, with expiry included.
ValidInputs == args.S > 0 /\ args.K > 0 /\ args.T >= 0 /\ args.sigma > 0

\* x is a number between lo and hi.
Within(x, lo, hi) ==
    IF IsNum(x) THEN lo <= x.v /\ x.v <= hi
    ELSE /\ x.k = "closed_form"
         /\ x.range # <<>>
         /\ lo <= x.range[1]
         /\ x.range[2] <= hi

\* C24: for S > 0, K > 0, T >= 0 and sigma > 0, calculate_delta_call
\* returns a value in [0, 1] and calculate_delta_put a value in [-1, 0].
C24_DeltaBounds ==
    ValidInputs =>
        /\ Called("calculate_delta_call") => Within(ret.value, 0, 1)
        /\ Called("calculate_delta_put") => Within(ret.value, -1, 0)

\* The delta of a live put, computed from d1.
C24_Witness ==
    /\ ValidInputs
    /\ args.T > 0
    /\ Called("calculate_delta_put")
    /\ ret.kernel
    /\ ret.value.range = <<-1, 0>>

(***************************************************************************)
(* The analysis pages up to the table they hand to their screening step:   *)
(* pages/1 (single-stock put), pages/2 (batch put, the body of its loop    *)
(* for one symbol) and pages/3 (covered call).  Each fetches the quote,    *)
(* stops on a quote without price, normalizes the chain and calls          *)
(* analyze_option row by row.  The screening of the collected table is     *)
(* the subject of SpecScreen.                                              *)
(***************************************************************************)
Pages == {"single_put", "batch_put", "covered_call"}

OptionTypeOf(page) == IF page = "covered_call" THEN "call" ELSE "put"

\* get_stock_info returns the fetched quote only when its price is > 0,
\* else the fallback quote, whose price is a mock price or 0.
StockPrices == {0, Spot}

\* Columns of the chains get_options_chain builds.
ChainColumns == RawColumns \cup {"expiration_date", "open_interest", "ask_price"}

PageRow(strike, price, dte) ==
    [strike_price |-> strike, option_price |-> price, dte |-> dte,
     volume |-> Num(50), implied_volatility |-> Num(40), bid_price |-> Num(1),
     expiration_date |-> Bad, open_interest |-> Num(10), ask_price |-> Num(3)]

PageRows ==
    {PageRow(Num(Spot - 15), Num(4), Num(28)),           \* put below spot
     PageRow(Num(Spot + 25), Num(4), Num(28)),           \* call above spot
     PageRow(Num(0), Num(4), Num(28)),                   \* strike 0
     PageRow(Num(Spot - 15), Num(4), Num(-1)),           \* expired yesterday
     PageRow(Num(Spot + 25), Num(4), Num(0)),            \* expires today
     PageRow(Num(Spot - 15), Num(Spot - 15), Num(28)),   \* premium = strike
     PageRow(NaN, Num(4), Num(28)),                      \* no strike
     PageRow(Num(Spot - 15), Bad, Num(28))}              \* unparseable price

PageChains ==
    {DataFrame(ChainColumns, rows) : rows \in SeqsUpTo(PageRows, MaxRawRows) \ {<<>>}}
    \cup {EmptyFrame}

\* dict.update: the keys of b added to a, overwriting.
Update(a, b) ==
    [key \in DOMAIN a \cup DOMAIN b |-> IF key \in DOMAIN b THEN b[key] ELSE a[key]]

\* Default of the cost-basis input of pages/3.
CostBasis == 150

\* pages/3 lines 188-209: for a strike above spot the yield of the analysis
\* is replaced by the annualized expected return on the cost basis.  The
\* probability is exact at T <= 0 only; 365 / dte with dte = 0 divides by zero.
CoveredCallUpdate(analysis, option, current_price) ==
    LET K == option.strike_price.v
        price == option.option_price.v
        dte == option.dte.v
        prob == analysis.assignment_probability
        assigned == price + (K - CostBasis)
        expected == prob.v * assigned + (Certain - prob.v) * price
    IN  IF K > current_price
        THEN Update(analysis,
                 [annualized_return |->
                      IF ~IsNum(prob) THEN Derived("covered_call_yield", prob)
                      ELSE IF dte = 0 THEN Degenerate
                      ELSE Frac(expected * DaysPerYear, Certain * CostBasis * dte),
                  expected_profit |->
                      IF IsNum(prob) THEN Frac(expected, Certain) ELSE prob,
                  if_assigned_return |-> Frac(assigned, CostBasis),
                  if_not_assigned_return |-> Frac(price, CostBasis)])
        ELSE analysis

\* analysis.update({...}): pages/2 lines 164-176, pages/1 lines 158-166,
\* pages/3 lines 212-220.
PageUpdate(page, option, current_price) ==
    IF page = "batch_put"
    THEN [symbol |-> "AAPL", stock_name |-> "name", sector |-> "sector",
          current_price |-> current_price,
          expiration_date |-> option.expiration_date,
          volume |-> option.volume, open_interest |-> option.open_interest,
          bid_price |-> option.bid_price, ask_price |-> option.ask_price,
          dte |-> option.dte, strike_price |-> option.strike_price]
    ELSE [symbol |-> "AAPL", expiration_date |-> option.expiration_date,
          volume |-> option.volume, open_interest |-> option.open_interest,
          bid_price |-> option.bid_price, ask_price |-> option.ask_price,
          implied_volatility_market |-> option.implied_volatility]

InitPage ==
    /\ passed \in PageChains
    /\ raw = passed
    /\ clean = EmptyFrame
    /\ npc = "start"
    /\ ScreenIdle
    /\ CalcIdle
    /\ FetchIdle
    /\ stock_info \in StockPrices
    /\ analysis_results = <<>>
    /\ ppc \in [page : Pages, pc : {"fetched"}, i : {1}, ranked : {<<>>}]

\* if stock_info['current_price'] == 0: return / continue.
SkipSymbol ==
    /\ ppc.pc = "fetched"
    /\ stock_info = 0
    /\ ppc' = [ppc EXCEPT !.pc = "skipped"]
    /\ UNCHANGED <<normVars, screenVars, calcVars, fetchVars, stock_info, analysis_results>>

\* The chain of the symbol is empty: return / continue.
NoContracts ==
    /\ ppc.pc = "fetched"
    /\ stock_info # 0
    /\ IsEmpty(raw)
    /\ ppc' = [ppc EXCEPT !.pc = "no_contracts"]
    /\ UNCHANGED <<normVars, screenVars, calcVars, fetchVars, stock_info, analysis_results>>

\* validate_option_data on the page's copy of the chain.  An exception
\* leaves through the page's try / except.
PageValidate ==
    /\ ppc.pc = "fetched"
    /\ stock_info # 0
    /\ ~IsEmpty(raw)
    /\ LET res == validate_option_data(raw)
       IN  /\ npc' = res.status
           /\ clean' = res.out
           /\ raw' = res.arg
           /\ ppc' = [ppc EXCEPT !.pc =
                         IF res.status = "raised" THEN "aborted"
                         ELSE IF IsEmpty(res.out) THEN "no_contracts"
                         ELSE "loop"]
    /\ UNCHANGED <<passed, screenVars, calcVars, fetchVars, stock_info, analysis_results>>

\* One pass of the loop over the rows of the normalized chain.
AnalyzeRow ==
    /\ ppc.pc = "loop"
    /\ ppc.i <= Len(clean.rows)
    /\ LET option == clean.rows[ppc.i]
           option_data == [current_price |-> stock_info,
                           strike_price |-> option.strike_price.v,
                           dte |-> option.dte.v,
                           option_price |-> option.option_price.v,
                           option_type |-> OptionTypeOf(ppc.page)]
       IN  \E res \in analyze_option(option_data) :
              LET analysis == IF ppc.page = "covered_call"
                              THEN CoveredCallUpdate(res.value, option, stock_info)
                              ELSE res.value
              IN  analysis_results' =
                      Append(analysis_results,
                             [option_data |-> option_data,
                              analysis |-> Update(analysis,
                                  PageUpdate(ppc.page, option, stock_info))])
    /\ ppc' = [ppc EXCEPT !.i = @ + 1]
    /\ UNCHANGED <<normVars, screenVars, calcVars, fetchVars, stock_info>>

\* The loop is over: the collected dicts become the table that is screened.
FinishLoop ==
    /\ ppc.pc = "loop"
    /\ ppc.i > Len(clean.rows)
    /\ ppc' = [ppc EXCEPT !.pc = "collected"]
    /\ UNCHANGED <<normVars, screenVars, calcVars, fetchVars, stock_info, analysis_results>>

\* Columns the page's mask reads from pd.DataFrame(analysis_results):
\* pages/1 lines 174-180, pages/2 lines 202-208, pages/3 lines 228-234.
\* The batch page compares the strike with the frame's current_price column,
\* the other two with the quote.
MaskColumns(page) ==
    {"annualized_return", "assignment_probability", "volume", "dte",
     "strike_price"}
    \cup (IF page = "batch_put" THEN {"current_price"} ELSE {})

\* Columns of pd.DataFrame(list of dicts): every key of every dict.
FrameColumns(records) ==
    UNION {DOMAIN records[i].analysis : i \in 1..Len(records)}

IsFrac(x) == "num" \in DOMAIN x

\* Truth values a comparison of the mask can take.  Exact values compare
\* exactly, NaN compares False, a closed-form value with a known range
\* compares within it and any other value either way.
YieldAtLeast(x, percent) ==
    IF IsFrac(x) THEN {FracGE(x, Frac(percent, 100))}
    ELSE IF x = NaN THEN {FALSE}
    ELSE BOOLEAN

AtMost(x, bound) ==
    IF IsNum(x) THEN {x.v <= bound}
    ELSE IF x = NaN THEN {FALSE}
    ELSE IF x.k = "closed_form" /\ x.range # <<>>
         THEN {b \in BOOLEAN : IF b THEN x.range[1] <= bound
                                    ELSE x.range[2] > bound}
    ELSE BOOLEAN

AtLeast(x, bound) ==
    IF IsNum(x) THEN {x.v >= bound}
    ELSE IF x = NaN THEN {FALSE}
    ELSE BOOLEAN

\* The strike test of the mask: below the quote for the put pages, above
\* it for the covered-call page.
OutOfTheMoney(page, strike_price, current_price) ==
    IF ~IsNum(strike_price) THEN FALSE
    ELSE IF page = "covered_call" THEN strike_price.v > current_price
    ELSE strike_price.v < current_price

\* The truth values the mask can take on one record.
PageMask(page, r, crit, current_price) ==
    {a /\ b /\ c /\ d /\ OutOfTheMoney(page, r.strike_price, current_price) :
        a \in YieldAtLeast(r.annualized_return, crit.min_annual_return),
        b \in AtMost(r.assignment_probability, crit.max_assignment_prob),
        c \in AtLeast(r.volume, crit.min_volume),
        d \in AtMost(r.dte, crit.max_dte)}

\* sort_values('annualized_return', ascending=False) on the kept records:
\* the orders in which no exact yield comes before a greater exact yield.
RankedOrders(records) ==
    LET n == Len(records)
        yield(i) == records[i].analysis.annualized_return
        Sorted(order) ==
            \A i, j \in 1..n :
                (i < j /\ IsFrac(yield(order[i])) /\ IsFrac(yield(order[j])))
                    => FracGE(yield(order[i]), yield(order[j]))
    IN  {[k \in 1..n |-> records[order[k]]] :
            order \in {o \in Permutations(1..n) : Sorted(o)}}

\* The screening step of the page on the collected records: the frame is
\* built, the mask reads its columns (a column that is not in the frame is
\* a KeyError, which leaves through the page's try / except), the kept
\* rows are sorted by yield.  The batch page comes here after its loop
\* whatever happened to the symbol and returns when it has no record.
PageScreen ==
    /\ \/ ppc.pc = "collected"
       \/ ppc.page = "batch_put" /\ ppc.pc \in {"skipped", "no_contracts", "aborted"}
    /\ IF analysis_results = <<>>
       THEN ppc' = [ppc EXCEPT !.pc = "no_results"]
       ELSE IF ~(MaskColumns(ppc.page) \subseteq FrameColumns(analysis_results))
       THEN ppc' = [ppc EXCEPT !.pc = "key_error"]
       ELSE \E crit \in CriteriaChoices :
            \E mask \in [1..Len(analysis_results) -> BOOLEAN] :
               /\ \A i \in 1..Len(analysis_results) :
                      mask[i] \in PageMask(ppc.page, analysis_results[i].analysis,
                                           crit, stock_info)
               /\ LET filtered_df == SelectSeqBy(analysis_results, mask)
                  IN  IF filtered_df = <<>>
                      THEN ppc' = [ppc EXCEPT !.pc = "no_match"]
                      ELSE \E ranked \in RankedOrders(filtered_df) :
                              ppc' = [ppc EXCEPT !.pc = "ranked",
                                                 !.ranked = ranked]
    /\ UNCHANGED <<normVars, screenVars, calcVars, fetchVars, stock_info,
                   analysis_results>>

NextPage ==
    \/ SkipSymbol
    \/ NoContracts
    \/ PageValidate
    \/ AnalyzeRow
    \/ FinishLoop
    \/ PageScreen

SpecPage == InitPage /\ [][NextPage]_vars

(***************************************************************************)
(* Properties of the pages.                                                *)
(***************************************************************************)
Analysed == {analysis_results[i] : i \in 1..Len(analysis_results)}

\* C15: strike price and spot price are strictly positive for every
\* contract on which the pages (single-stock put, batch put, covered call)
\* invoke analyze_option, whatever the quote and the raw chain.
C15_AnalysedStrikeAndSpotPositive ==
    \A e \in Analysed :
        /\ e.option_data.strike_price > 0
        /\ e.option_data.current_price > 0

\* float values that are neither NaN nor infinite.  A fraction is finite
\* when its denominator is not 0.
Finite(x) ==
    IF "k" \in DOMAIN x THEN x.k \in {"num", "closed_form"}
    ELSE x.den # 0

\* C20: every numeric field of every analysis that reaches the screening
\* step is finite (neither NaN nor infinite): a contract with a non-finite
\* field is excluded before screening.
C20_AnalyticsFieldsFinite ==
    ppc.pc = "collected" =>
        \A e \in Analysed : \A key \in AnalyzeOptionKeys : Finite(e.analysis[key])

(***************************************************************************)
(* The shared calculator.  options_calculator.calculator is one object     *)
(* for the whole process: one caller analyses a contract, again and        *)
(* again, while other callers may call set_risk_free_rate on it.           *)
(***************************************************************************)
MaxAnalyses == 2     \* analyze_option calls of the caller under study

\* Rates other callers may set: none is refused by set_risk_free_rate.
RateChoices == {-1, 0, DefaultRiskFreeRate}

\* The solver is a function of the objective: for an expired contract the
\* objective does not depend on the rate, for a live one it does.
SolverAnswers ==
    {o \in minimize_scalar : o.x \in {0, (MinSigma + MaxSigma) \div 2}}
Solvers == [expired : SolverAnswers, live : [RateChoices -> SolverAnswers]]

SolverAnswer(option_data, rate) ==
    IF option_data.dte <= 0 THEN solver.expired ELSE solver.live[rate]

SharedArgs ==
    {a \in CalcArgs : /\ a.S = Spot
                      /\ a.K > 0
                      /\ a.sigma = DefaultIV
                      /\ a.option_price = 2}

InitShared ==
    /\ NormIdle
    /\ ScreenIdle
    /\ PageIdle
    /\ FetchIdle
    /\ risk_free_rate = DefaultRiskFreeRate
    /\ args \in SharedArgs
    /\ ret = NoRet
    /\ solver \in Solvers
    /\ analyses = <<>>

\* set_risk_free_rate(rate) by any caller: self.risk_free_rate = rate.
SetRiskFreeRate ==
    /\ \E rate \in RateChoices : risk_free_rate' = rate
    /\ UNCHANGED <<normVars, screenVars, pageVars, fetchVars, args, ret, solver,
                   analyses>>

\* analyze_option(option_data) by the caller under study, with the answer
\* this build's solver gives.
AnalyzeShared ==
    /\ Len(analyses) < MaxAnalyses
    /\ LET option_data == OptionData(args)
           answer == SolverAnswer(option_data, risk_free_rate)
       IN  \E res \in analyze_option(option_data) :
              /\ res.solver = answer.status
              /\ answer.status = "converged"
                     => res.value.implied_volatility = Num(answer.x)
              /\ analyses' = Append(analyses,
                                    [option_data |-> option_data,
                                     rate |-> risk_free_rate,
                                     result |-> res.value])
    /\ UNCHANGED <<normVars, screenVars, pageVars, fetchVars, risk_free_rate,
                   args, ret, solver>>

NextShared == SetRiskFreeRate \/ AnalyzeShared

SpecShared == InitShared /\ [][NextShared]_vars

\* C21: two analyze_option calls with the same option_data return the same
\* result, whatever other callers do on the shared calculator in between
\* (set_risk_free_rate included).
C21_AnalyticsIndependentOfOtherCallers ==
    \A i, j \in 1..Len(analyses) :
        analyses[i].option_data = analyses[j].option_data
            => analyses[i].result = analyses[j].result

\* C23: a negative risk-free rate is rejected when it is configured, and no
\* analytics result is computed with a negative rate.
C23_NegativeRateRejected ==
    /\ risk_free_rate >= 0
    /\ \A i \in 1..Len(analyses) : analyses[i].rate >= 0
\* C26: in each of the three pages every record handed to the screening
\* step carries every field the mask reads, so whenever a contract survives
\* normalization the screening step ends without a missing-field error.
C26_ScreenedFieldsPresent ==
    /\ ppc.pc # "key_error"
    /\ ppc.pc = "collected" =>
           \A e \in Analysed : MaskColumns(ppc.page) \subseteq DOMAIN e.analysis

\* The cash-secured-put yield of the contract of a record.
PutYield(e) ==
    calculate_annualized_return(e.option_data.option_price,
                                e.option_data.strike_price, e.option_data.dte)

\* The yield on the cost basis of the contract of a record.
CostBasisYield(e) ==
    LET p == e.analysis.assignment_probability
        price == e.option_data.option_price
        assigned == price + (e.option_data.strike_price - CostBasis)
    IN  IF IsNum(p)
        THEN Frac((p.v * assigned + (Certain - p.v) * price) * DaysPerYear,
                  Certain * CostBasis * e.option_data.dte)
        ELSE Derived("covered_call_yield", p)

\* C27: on the covered-call page every row of the ranked output has its
\* strike above the quote and carries the annualized return on the cost
\* basis, never the cash-secured-put yield.
C27_RankedCallsCarryCostBasisYield ==
    (ppc.page = "covered_call" /\ ppc.pc = "ranked") =>
        \A i \in 1..Len(ppc.ranked) :
            LET e == ppc.ranked[i]
            IN  /\ e.option_data.strike_price > e.option_data.current_price
                /\ e.analysis.annualized_return = CostBasisYield(e)
                /\ e.analysis.annualized_return # PutYield(e)

(***************************************************************************)
(* The data fetcher (data_fetcher.py).  Strings are sequences of           *)
(* characters, time is counted in whole seconds.                           *)
(***************************************************************************)
\* self.min_request_interval
MinRequestInterval == 1

\* time.time() when the fetcher is first used; last_request_time starts at 0.
StartTime == 10

Contains(text, part) ==
    \E i \in 0..(Len(text) - Len(part)) :
        SubSeq(text, i + 1, i + Len(part)) = part

Code429 == <<"4", "2", "9">>
TooManyRequests == <<"T", "o", "o", " ", "M", "a", "n", "y", " ", "R", "e", "q", "u", "e", "s", "t", "s">>

\* str(e) of the exceptions the provider's client raises.
Messages ==
    {<<"H", "T", "T", "P", " ", "4", "2", "9">>,
     <<"i", "d", " ", "1", "4", "2", "9", "0">>,
     <<"T", "o", "o", " ", "M", "a", "n", "y", " ", "R", "e", "q", "u", "e", "s", "t", "s">>,
     <<"t", "o", "o", " ", "m", "a", "n", "y", " ", "r", "e", "q", "u", "e", "s", "t", "s">>,
     <<"N", "o", " ", "d", "a", "t", "a">>,
     <<>>}

\* Line 47: "429" in str(e) or "Too Many Requests" in str(e).
IsRateLimitError(msg) == Contains(msg, Code429) \/ Contains(msg, TooManyRequests)

\* Variant of the retry guard that also passes on the last attempt.
MayRetryOnLastAttempt(attempt, max_retries) == attempt < max_retries

\* Line 48: attempts remain.
MayRetry(attempt, max_retries) == attempt < max_retries - 1

\* A quote as _fetch_data returns it, and the prices the provider can give:
\* a positive close, 0 for a missing price, a negative close, NaN.
Quote(symbol, price, sector, industry) ==
    [symbol |-> symbol, current_price |-> price, sector |-> sector,
     industry |-> industry]

ProviderPrices == {Num(Spot), Num(0), Num(-1), NaN}

Str(text) == [type |-> "str", chars |-> text]
NoneValue == [type |-> "NoneType", chars |-> <<>>]

\* What one call of func does: it returns a quote or raises.
FuncOutcomes(symbol) ==
    {[raised |-> FALSE, value |-> <<Quote(symbol, price, "Provider", "Provider")>>,
      msg |-> <<>>] : price \in ProviderPrices}
    \cup {[raised |-> TRUE, value |-> <<>>, msg |-> msg] : msg \in Messages}

\* Calls of _retry_request: the defaults of its signature, the arguments of
\* get_stock_info and get_options_chain, and no or one attempt.
RetryArgs == {[max_retries |-> 3, delay |-> 2], [max_retries |-> 2, delay |-> 3],
              [max_retries |-> 1, delay |-> 2], [max_retries |-> 0, delay |-> 2]}

\* Requests made of the fetcher in one run.
MaxRequests == 2

\* The fetcher before its first request, line 23-29.
NewFetcher ==
    [pc |-> "idle", caller |-> "none", symbol |-> NoneValue,
     max_retries |-> 0, delay |-> 0, attempt |-> 0,
     clock |-> StartTime, last_request_time |-> 0,
     trace |-> <<>>, result |-> <<>>, error |-> <<>>, info |-> <<>>,
     requests |-> 0]

\* The loop head of _retry_request: the next attempt, or return None when
\* range(max_retries) is exhausted.
LoopHead(f, attempt) ==
    IF attempt < f.max_retries
    THEN [f EXCEPT !.pc = "rate_limit", !.attempt = attempt]
    ELSE [f EXCEPT !.pc = "returned", !.attempt = attempt, !.result = <<>>]

\* Entry of _retry_request(func, max_retries, delay).
EnterRetry(f, caller, symbol, max_retries, delay) ==
    LoopHead([f EXCEPT !.caller = caller, !.symbol = symbol,
                       !.max_retries = max_retries, !.delay = delay,
                       !.trace = <<>>, !.result = <<>>, !.error = <<>>,
                       !.info = <<>>, !.requests = @ + 1],
             0)

InitRetry ==
    /\ NormIdle
    /\ ScreenIdle
    /\ CalcIdle
    /\ PageIdle
    /\ fetcher = NewFetcher

\* A caller invokes _retry_request.
RetryRequest ==
    /\ fetcher.pc \in {"idle", "returned", "raised"}
    /\ fetcher.requests < MaxRequests
    /\ \E a \in RetryArgs :
          fetcher' = EnterRetry(fetcher, "direct", Str(<<"A", "A", "P", "L">>),
                                a.max_retries, a.delay)
    /\ UNCHANGED <<normVars, screenVars, calcVars, pageVars>>

\* _rate_limit: sleep until min_request_interval has passed since the last
\* request, then stamp the time.
RateLimit ==
    /\ fetcher.pc = "rate_limit"
    /\ LET time_since_last == fetcher.clock - fetcher.last_request_time
           now == IF time_since_last < MinRequestInterval
                  THEN fetcher.clock + (MinRequestInterval - time_since_last)
                  ELSE fetcher.clock
       IN  fetcher' = [fetcher EXCEPT
                          !.pc = "call",
                          !.clock = now,
                          !.last_request_time = now,
                          !.trace = Append(@, [ev |-> "rate_limit",
                                               attempt |-> fetcher.attempt,
                                               raised |-> FALSE, msg |-> <<>>])]
    /\ UNCHANGED <<normVars, screenVars, calcVars, pageVars>>

\* return func(), and the except clause of lines 46-53: a rate-limit error
\* with attempts left sleeps delay * 2 ** attempt plus up to a second and
\* continues, every other exception is raised again.
CallFunc ==
    /\ fetcher.pc = "call"
    /\ \E out \in FuncOutcomes(fetcher.symbol), elapsed \in {0, 1}, jitter \in {0, 1} :
          LET called == [fetcher EXCEPT
                            !.clock = @ + elapsed,
                            !.trace = Append(@, [ev |-> "func",
                                                 attempt |-> fetcher.attempt,
                                                 raised |-> out.raised,
                                                 msg |-> out.msg])]
              wait_time == fetcher.delay * (2 ^ fetcher.attempt) + jitter
          IN  fetcher' =
                  IF ~out.raised
                  THEN [called EXCEPT !.pc = "returned", !.result = out.value]
                  ELSE IF /\ IsRateLimitError(out.msg)
                          /\ MayRetry(fetcher.attempt, fetcher.max_retries)
                  THEN LoopHead([called EXCEPT !.clock = @ + wait_time],
                                fetcher.attempt + 1)
                  ELSE [called EXCEPT !.pc = "raised", !.error = <<out.msg>>]
    /\ UNCHANGED <<normVars, screenVars, calcVars, pageVars>>

NextRetry == RetryRequest \/ RateLimit \/ CallFunc

SpecRetry == InitRetry /\ [][NextRetry]_vars

\* The interpreter runs the loop on: a step that can be taken is taken.
\* func and the sleeps end.
FairSpecRetry == SpecRetry /\ WF_vars(RateLimit) /\ WF_vars(CallFunc)

(***************************************************************************)
(* Properties of _retry_request.                                           *)
(***************************************************************************)
FuncEvents ==
    {k \in 1..Len(fetcher.trace) : fetcher.trace[k].ev = "func"}

Retrying == fetcher.pc \in {"rate_limit", "call"}
Finished == fetcher.pc \in {"returned", "raised"}

\* The error of an attempt is one the loop may retry.
Retryable(event) ==
    /\ event.raised
    /\ IsRateLimitError(event.msg)
    /\ event.attempt < fetcher.max_retries - 1

RetryRequestSafe ==
    /\ Cardinality(FuncEvents) <= fetcher.max_retries
    /\ \A k \in FuncEvents :
          LET event == fetcher.trace[k]
          IN  \* one _rate_limit call before the attempt
              /\ k > 1
              /\ fetcher.trace[k - 1].ev = "rate_limit"
              /\ k > 2 => fetcher.trace[k - 2].ev = "func"
              \* the loop goes on after a retryable error only
              /\ k < Len(fetcher.trace) => Retryable(event)
              \* every other exception reaches the caller at once
              /\ (event.raised /\ ~Retryable(event)) =>
                     /\ k = Len(fetcher.trace)
                     /\ fetcher.pc = "raised"
                     /\ fetcher.error = <<event.msg>>

\* C28: _retry_request invokes func at most max_retries times and always
\* terminates; it goes on to another attempt only after an error whose
\* message contains "429" or "Too Many Requests" and only while attempts
\* remain; any other exception, and a rate-limit error on the last attempt,
\* is raised again without a further attempt; every attempt is preceded by
\* one _rate_limit call.
C28_RetryRequestBoundedAndTerminates ==
    /\ []RetryRequestSafe
    /\ Retrying ~> Finished

\* A rate-limit error on the last of two attempts has been raised again.
C28_Witness ==
    /\ fetcher.pc = "raised"
    /\ fetcher.max_retries = 2
    /\ Cardinality(FuncEvents) = 2
    /\ IsRateLimitError(fetcher.error[1])

(***************************************************************************)
(* get_stock_info and the pages that call it.                              *)
(***************************************************************************)
UpperCase ==
    <<"A", "B", "C", "D", "E", "F", "G", "H", "I", "J", "K", "L", "M",
      "N", "O", "P", "Q", "R", "S", "T", "U", "V", "W", "X", "Y", "Z">>
LowerCase ==
    <<"a", "b", "c", "d", "e", "f", "g", "h", "i", "j", "k", "l", "m",
      "n", "o", "p", "q", "r", "s", "t", "u", "v", "w", "x", "y", "z">>
Whitespace == {" "}

IsLetter(c) ==
    \E i \in 1..Len(UpperCase) : c = UpperCase[i] \/ c = LowerCase[i]

\* str.upper()
upper(text) ==
    [i \in 1..Len(text) |->
        IF \E j \in 1..Len(LowerCase) : text[i] = LowerCase[j]
        THEN UpperCase[CHOOSE j \in 1..Len(LowerCase) : text[i] = LowerCase[j]]
        ELSE text[i]]

\* str.strip(): without the leading and the trailing whitespace.
strip(text) ==
    LET solid == {i \in 1..Len(text) : text[i] \notin Whitespace}
    IN  IF solid = {} THEN <<>>
        ELSE SubSeq(text, CHOOSE i \in solid : \A j \in solid : i <= j,
                          CHOOSE i \in solid : \A j \in solid : i >= j)

\* str.isalpha(): not empty and letters only.
isalpha(text) == Len(text) > 0 /\ \A i \in 1..Len(text) : IsLetter(text[i])

\* utils.validate_stock_symbol
validate_stock_symbol(symbol) ==
    IF symbol.type # "str" \/ symbol.chars = <<>> THEN FALSE
    ELSE LET text == strip(upper(symbol.chars))
         IN  IF Len(text) < 1 \/ Len(text) > 5 THEN FALSE
             ELSE IF ~isalpha(text) THEN FALSE
             ELSE TRUE

\* Symbols a caller passes: two of mock_data, an unknown one, one that is
\* accepted after upper().strip(), and empty, blank, digits, seven letters,
\* letters with digits, None.
Symbols ==
    {Str(<<"A", "A", "P", "L">>),
     Str(<<"T", "S", "L", "A">>),
     Str(<<"Z", "Z", "Z", "Z">>),
     Str(<<" ", "a", "a", "p", "l", " ">>),
     Str(<<>>),
     Str(<<" ", " ", " ">>),
     Str(<<"1", "2", "3">>),
     Str(<<"T", "O", "O", "L", "O", "N", "G">>),
     Str(<<"A", "A", "P", "L", "1", "2", "3">>),
     NoneValue}

\* mock_data of _get_fallback_stock_info.
mock_data ==
    {[symbol |-> <<"A", "A", "P", "L">>, price |-> 175,
      sector |-> "Technology"],
     [symbol |-> <<"T", "S", "L", "A">>, price |-> 250,
      sector |-> "Consumer Discretionary"],
     [symbol |-> <<"M", "S", "F", "T">>, price |-> 350,
      sector |-> "Technology"],
     [symbol |-> <<"G", "O", "O", "G", "L">>, price |-> 140,
      sector |-> "Technology"],
     [symbol |-> <<"A", "M", "Z", "N">>, price |-> 150,
      sector |-> "Consumer Discretionary"],
     [symbol |-> <<"M", "E", "T", "A">>, price |-> 300,
      sector |-> "Technology"],
     [symbol |-> <<"N", "V", "D", "A">>, price |-> 450,
      sector |-> "Technology"],
     [symbol |-> <<"N", "F", "L", "X">>, price |-> 400,
      sector |-> "Communication Services"],
     [symbol |-> <<"A", "D", "B", "E">>, price |-> 500,
      sector |-> "Technology"],
     [symbol |-> <<"C", "R", "M">>, price |-> 200,
      sector |-> "Technology"]}

_get_default_stock_info(symbol) == Quote(symbol, Num(0), "Unknown", "Unknown")

_get_fallback_stock_info(symbol) ==
    IF \E data \in mock_data : data.symbol = symbol.chars
    THEN LET data == CHOOSE data \in mock_data : data.symbol = symbol.chars
         IN  Quote(symbol, Num(data.price), data.sector, "Technology")
    ELSE _get_default_stock_info(symbol)

\* Variant of the test of line 119 that lets a price of 0 through.
ValidResultAtLeastZero(result) ==
    /\ result # <<>>
    /\ IsNum(result[1].current_price)
    /\ result[1].current_price.v >= 0

\* Line 119: result and result['current_price'] > 0.  NaN > 0 is False.
ValidResult(result) ==
    /\ result # <<>>
    /\ IsNum(result[1].current_price)
    /\ result[1].current_price.v > 0

\* Variant of the entry that fetches without validating the symbol.
get_stock_info_unvalidated(f, symbol) ==
    EnterRetry(f, "get_stock_info", symbol, 2, 3)

\* Lines 66-69 and 118: a rejected symbol returns the default quote at
\* once, any other goes to _retry_request(_fetch_data, max_retries=2, delay=3).
get_stock_info_entry(f, symbol) ==
    IF ~validate_stock_symbol(symbol)
    THEN [f EXCEPT !.pc = "done", !.caller = "get_stock_info",
                   !.symbol = symbol,
                   !.info = <<_get_default_stock_info(symbol)>>]
    ELSE EnterRetry(f, "get_stock_info", symbol, 2, 3)

\* Lines 117-127: the result of _retry_request when it is a quote with a
\* price > 0, the fallback quote otherwise and after any exception.
get_stock_info_exit(f) ==
    [f EXCEPT !.pc = "done",
              !.info = IF f.pc = "returned" /\ ValidResult(f.result)
                       THEN f.result
                       ELSE <<_get_fallback_stock_info(f.symbol)>>]

\* The chains of the symbol's options: no contract or one.
FetchChains == {chain \in PageChains : Len(chain.rows) <= 1}

InitFetch ==
    /\ passed \in FetchChains
    /\ raw = passed
    /\ clean = EmptyFrame
    /\ npc = "start"
    /\ ScreenIdle
    /\ CalcIdle
    /\ fetcher = NewFetcher
    /\ stock_info = 0
    /\ analysis_results = <<>>
    /\ ppc \in [page : Pages, pc : {"start"}, i : {1}, ranked : {<<>>}]

\* stock_info = data_fetcher.get_stock_info(symbol) of the page.
Receive(f) ==
    /\ fetcher' = f
    /\ IF f.pc = "done"
       THEN /\ stock_info' = f.info[1].current_price.v
            /\ ppc' = [ppc EXCEPT !.pc = "fetched"]
       ELSE UNCHANGED <<stock_info, ppc>>

\* The page calls get_stock_info on the symbol it was given.
GetStockInfo ==
    /\ ppc.pc = "start"
    /\ fetcher.pc = "idle"
    /\ \E symbol \in Symbols : Receive(get_stock_info_entry(fetcher, symbol))
    /\ UNCHANGED <<normVars, screenVars, calcVars, analysis_results>>

\* _retry_request has returned or raised: get_stock_info returns.
ReturnStockInfo ==
    /\ fetcher.caller = "get_stock_info"
    /\ fetcher.pc \in {"returned", "raised"}
    /\ Receive(get_stock_info_exit(fetcher))
    /\ UNCHANGED <<normVars, screenVars, calcVars, analysis_results>>

NextFetch ==
    \/ GetStockInfo
    \/ RateLimit
    \/ CallFunc
    \/ ReturnStockInfo
    \/ SkipSymbol
    \/ NoContracts
    \/ PageValidate
    \/ AnalyzeRow
    \/ FinishLoop
    \/ PageScreen

SpecFetch == InitFetch /\ [][NextFetch]_vars

(***************************************************************************)
(* Properties of get_stock_info.                                           *)
(***************************************************************************)
StockInfoReturned == fetcher.caller = "get_stock_info" /\ fetcher.pc = "done"

\* The fetch raised after its retries, or gave a price that is not > 0.
FetchFailed ==
    /\ fetcher.trace # <<>>
    /\ \/ fetcher.error # <<>>
       \/ fetcher.result = <<>>
       \/ ~IsNum(fetcher.result[1].current_price)
       \/ fetcher.result[1].current_price.v <= 0

\* The price of the fallback quote: the mock price of a known symbol, else 0.
FallbackPrice(symbol) ==
    IF \E data \in mock_data : data.symbol = symbol.chars
    THEN (CHOOSE data \in mock_data : data.symbol = symbol.chars).price
    ELSE 0

\* C29: get_stock_info ends by returning a quote, never by an exception,
\* and the quote's price is a number >= 0; when the fetch raised after its
\* retries or gave a price that is not > 0 the quote is the fallback one,
\* with the mock price of the ten known symbols and 0 for any other.
C29_StockInfoAlwaysReturned ==
    /\ (fetcher.caller = "get_stock_info" /\ fetcher.pc = "raised")
           => ENABLED ReturnStockInfo
    /\ StockInfoReturned =>
          LET info == fetcher.info[1]
          IN  /\ IsNum(info.current_price)
              /\ info.current_price.v >= 0
              /\ FetchFailed =>
                    /\ info = _get_fallback_stock_info(fetcher.symbol)
                    /\ info.current_price.v = FallbackPrice(fetcher.symbol)

\* The fetch of a known symbol gave no price and the mock quote came back.
C29_Witness ==
    /\ StockInfoReturned
    /\ FetchFailed
    /\ fetcher.error = <<>>
    /\ fetcher.info[1].current_price.v = Spot

\* C30: for a symbol validate_stock_symbol rejects, get_stock_info returns
\* the default quote, of price 0, without any request to the provider (no
\* _retry_request, no _rate_limit, last_request_time as it was), and the
\* page computes no analytics for the symbol.
C30_RejectedSymbolNeverFetched ==
    (fetcher.caller = "get_stock_info" /\ ~validate_stock_symbol(fetcher.symbol)) =>
        /\ fetcher.pc = "done"
        /\ fetcher.info = <<_get_default_stock_info(fetcher.symbol)>>
        /\ fetcher.info[1].current_price = Num(0)
        /\ fetcher.trace = <<>>
        /\ fetcher.requests = 0
        /\ fetcher.last_request_time = NewFetcher.last_request_time
        /\ fetcher.clock = NewFetcher.clock
        /\ analysis_results = <<>>
        /\ ppc.pc \in {"fetched", "skipped", "no_results"}

\* 'AAPL123' was rejected and the page has stopped on its quote.
C30_Witness ==
    /\ fetcher.symbol = Str(<<"A", "A", "P", "L", "1", "2", "3">>)
    /\ fetcher.pc = "done"
    /\ ppc.pc = "skipped"
====
